---- MODULE Spec2Model ----
(***************************************************************************)
(* Timetable generator: the constraint validator, the conflict auditor,    *)
(* the request builder/prioritizer and the backtracking search of          *)
(* generator.py, constraints.py, models.py, config.py and utils.py.        *)
(***************************************************************************)
EXTENDS Integers, Sequences, FiniteSets, TLC

(***************************************************************************)
(* Bounds of the model.                                                    *)
(***************************************************************************)
\* largest hours_per_week of a course
MaxHours == 2
\* largest max_attempts of a direct _schedule_requests call
MaxBudget == 2
\* longest assignment list handed to the validator and the auditor
MaxList == 2
\* longest assignment list handed to the auditor alone
MaxAudit == 3
\* largest value of --seed
MaxSeed == 2

\* max_attempts default of _schedule_requests, the budget generate runs with
DefaultMaxAttempts == 10000

\* the default of --max-attempts
CliMaxAttempts == 10000

(***************************************************************************)
(* models.py: entities.  Equality of TimeSlot is by (day, period); of      *)
(* Room, Teacher, Course and Section by their id.                          *)
(***************************************************************************)
TimeSlot(day, period, start_time, end_time) ==
    [day |-> day, period |-> period, start_time |-> start_time, end_time |-> end_time]

\* equality over all four fields
TimeSlotEqAllFields(a, b) == a = b

\* TimeSlot.__eq__ (and __hash__): day and period
TimeSlotEq(a, b) == a.day = b.day /\ a.period = b.period

RoomEq(a, b) == a.room_id = b.room_id

TeacherEq(a, b) == a.teacher_id = b.teacher_id

CourseEq(a, b) == a.course_id = b.course_id

SectionEq(a, b) == a.section_id = b.section_id

\* is_available with slots compared field by field, display strings included
is_available_by_fields(teacher, time_slot) ==
    time_slot \notin teacher.unavailable_slots

\* Teacher.is_available: time_slot not in self.unavailable_slots
\* (set membership goes through TimeSlot.__hash__/__eq__)
is_available(teacher, time_slot) ==
    ~ \E u \in teacher.unavailable_slots : TimeSlotEq(u, time_slot)

ClassAssignment(course, section, teacher, room, time_slot) ==
    [course |-> course, section |-> section, teacher |-> teacher,
     room |-> room, time_slot |-> time_slot]

(***************************************************************************)
(* constraints.py: ConstraintValidator.  Every check appends its messages  *)
(* to self.conflicts; a message is modelled by its kind and its subject.   *)
(***************************************************************************)
check_teacher_conflict(assignment, existing_assignments) ==
    LET hits == SelectSeq(existing_assignments,
                  LAMBDA e : TeacherEq(e.teacher, assignment.teacher)
                             /\ TimeSlotEq(e.time_slot, assignment.time_slot))
    IN  [i \in 1..Len(hits) |-> [kind |-> "Teacher conflict",
                                 who |-> assignment.teacher.name]]

\* the room check left out
check_room_conflict_skipped(assignment, existing_assignments) == << >>

\* lines 37-45: the room is taken at the slot
check_room_conflict(assignment, existing_assignments) ==
    LET hits == SelectSeq(existing_assignments,
                  LAMBDA e : RoomEq(e.room, assignment.room)
                             /\ TimeSlotEq(e.time_slot, assignment.time_slot))
    IN  [i \in 1..Len(hits) |-> [kind |-> "Room conflict",
                                 who |-> assignment.room.name]]

\* the section check left out
check_section_conflict_skipped(assignment, existing_assignments) == << >>

check_section_conflict(assignment, existing_assignments) ==
    LET hits == SelectSeq(existing_assignments,
                  LAMBDA e : SectionEq(e.section, assignment.section)
                             /\ TimeSlotEq(e.time_slot, assignment.time_slot))
    IN  [i \in 1..Len(hits) |-> [kind |-> "Section conflict",
                                 who |-> assignment.section.name]]

\* a room exactly as large as the section counted as too small
check_room_capacity_strict(assignment) ==
    IF assignment.room.capacity <= assignment.section.student_count
    THEN << [kind |-> "Capacity conflict", who |-> assignment.room.name] >>
    ELSE << >>

check_room_capacity(assignment) ==
    IF assignment.room.capacity < assignment.section.student_count
    THEN << [kind |-> "Capacity conflict", who |-> assignment.room.name] >>
    ELSE << >>

check_teacher_availability(assignment) ==
    IF ~ is_available(assignment.teacher, assignment.time_slot)
    THEN << [kind |-> "Availability conflict", who |-> assignment.teacher.name] >>
    ELSE << >>

check_room_type_compatibility(assignment) ==
    IF assignment.course.course_type = "lab" /\ assignment.room.room_type # "lab"
    THEN << [kind |-> "Room type conflict", who |-> assignment.course.name] >>
    ELSE << >>

\* the checks short-circuited: the first check that finds something ends the call
validate_assignment_first_only(assignment, existing_assignments) ==
    LET checks == << check_teacher_conflict(assignment, existing_assignments),
                     check_room_conflict(assignment, existing_assignments),
                     check_section_conflict(assignment, existing_assignments),
                     check_room_capacity(assignment),
                     check_teacher_availability(assignment),
                     check_room_type_compatibility(assignment) >>
        found == { i \in 1..6 : checks[i] # << >> }
        conflicts == IF found = {} THEN << >>
                     ELSE checks[CHOOSE i \in found : \A j \in found : i <= j]
    IN  [is_valid |-> Len(conflicts) = 0, conflicts |-> conflicts]

\* validate_assignment: (is_valid, conflicts_list)
validate_assignment(assignment, existing_assignments) ==
    LET conflicts ==
            check_teacher_conflict(assignment, existing_assignments)
         \o check_room_conflict(assignment, existing_assignments)
         \o check_section_conflict(assignment, existing_assignments)
         \o check_room_capacity(assignment)
         \o check_teacher_availability(assignment)
         \o check_room_type_compatibility(assignment)
    IN  [is_valid |-> Len(conflicts) = 0, conflicts |-> conflicts]

(***************************************************************************)
(* constraints.py: ConflictDetector.  The three schedules are dicts of     *)
(* dicts keyed by entity (its id) and time slot (day, period); the model   *)
(* keeps each as one function over <<id, day, period>>.                    *)
(***************************************************************************)
SlotKey(id, time_slot) == << id, time_slot.day, time_slot.period >>

\* the entry kept when the key is already there
PutIfAbsent(dict, key, value) ==
    [k \in DOMAIN dict \cup {key} |-> IF k \in DOMAIN dict THEN dict[k] ELSE value]

\* dict[key] = value
Put(dict, key, value) ==
    [k \in DOMAIN dict \cup {key} |-> IF k = key THEN value ELSE dict[k]]

EmptyDict == [k \in {} |-> 0]

EmptyConflicts ==
    [teacher_conflicts |-> << >>, room_conflicts |-> << >>,
     section_conflicts |-> << >>, capacity_issues |-> << >>,
     availability_issues |-> << >>, room_type_issues |-> << >>]

\* one iteration of the loop of find_all_conflicts over `assignment`
AuditStep(st, assignment) ==
    LET tk == SlotKey(assignment.teacher.teacher_id, assignment.time_slot)
        rk == SlotKey(assignment.room.room_id, assignment.time_slot)
        sk == SlotKey(assignment.section.section_id, assignment.time_slot)
        c  == st.conflicts
    IN  [teacher_schedule |-> Put(st.teacher_schedule, tk, assignment),
         room_schedule    |-> Put(st.room_schedule, rk, assignment),
         section_schedule |-> Put(st.section_schedule, sk, assignment),
         conflicts |->
           [teacher_conflicts |->
              IF tk \in DOMAIN st.teacher_schedule
              THEN Append(c.teacher_conflicts,
                     [teacher |-> assignment.teacher.name,
                      courses |-> << st.teacher_schedule[tk].course.name,
                                     assignment.course.name >>])
              ELSE c.teacher_conflicts,
            room_conflicts |->
              IF rk \in DOMAIN st.room_schedule
              THEN Append(c.room_conflicts,
                     [room |-> assignment.room.name,
                      courses |-> << st.room_schedule[rk].course.name,
                                     assignment.course.name >>])
              ELSE c.room_conflicts,
            section_conflicts |->
              IF sk \in DOMAIN st.section_schedule
              THEN Append(c.section_conflicts,
                     [section |-> assignment.section.name,
                      courses |-> << st.section_schedule[sk].course.name,
                                     assignment.course.name >>])
              ELSE c.section_conflicts,
            capacity_issues |->
              IF assignment.room.capacity < assignment.section.student_count
              THEN Append(c.capacity_issues,
                     [room |-> assignment.room.name,
                      section |-> assignment.section.name])
              ELSE c.capacity_issues,
            availability_issues |->
              IF ~ is_available(assignment.teacher, assignment.time_slot)
              THEN Append(c.availability_issues,
                     [teacher |-> assignment.teacher.name])
              ELSE c.availability_issues,
            room_type_issues |->
              IF assignment.course.course_type = "lab"
                 /\ assignment.room.room_type # "lab"
              THEN Append(c.room_type_issues,
                     [course |-> assignment.course.name,
                      room |-> assignment.room.name])
              ELSE c.room_type_issues]]

RECURSIVE AuditLoop(_, _, _)
AuditLoop(st, assignments_, i) ==
    IF i > Len(assignments_) THEN st
    ELSE AuditLoop(AuditStep(st, assignments_[i]), assignments_, i + 1)

find_all_conflicts(assignments_) ==
    AuditLoop([teacher_schedule |-> EmptyDict, room_schedule |-> EmptyDict,
               section_schedule |-> EmptyDict, conflicts |-> EmptyConflicts],
              assignments_, 1).conflicts

\* the count without the room type issues
count_conflicts_five_kinds(conflicts) ==
      Len(conflicts.teacher_conflicts) + Len(conflicts.room_conflicts)
    + Len(conflicts.section_conflicts) + Len(conflicts.capacity_issues)
    + Len(conflicts.availability_issues)

\* count_conflicts: sum(len(v) for v in conflicts.values())
count_conflicts(conflicts) ==
      Len(conflicts.teacher_conflicts) + Len(conflicts.room_conflicts)
    + Len(conflicts.section_conflicts) + Len(conflicts.capacity_issues)
    + Len(conflicts.availability_issues) + Len(conflicts.room_type_issues)

(***************************************************************************)
(* config.py: the slot universe, days x periods that have a time entry.    *)
(***************************************************************************)
RECURSIVE Flatten(_)
Flatten(seqs) ==
    IF seqs = << >> THEN << >> ELSE Head(seqs) \o Flatten(Tail(seqs))

get_all_time_slots(config_) ==
    LET periods == SelectSeq([p \in 1..config_.periods_per_day |-> p],
                             LAMBDA p : p \in DOMAIN config_.time_slots)
        OfDay(day) == [i \in 1..Len(periods) |->
                         TimeSlot(day, periods[i],
                                  config_.time_slots[periods[i]][1],
                                  config_.time_slots[periods[i]][2])]
    IN  Flatten([d \in 1..Len(config_.days) |-> OfDay(config_.days[d])])

(***************************************************************************)
(* utils.py: the course-assignment mapping.  A dict is kept as the         *)
(* sequence of its items in insertion order; assigning to a key that is    *)
(* present replaces its value in place.                                    *)
(***************************************************************************)
DictAssign(dict, key, value) ==
    IF \E i \in 1..Len(dict) : dict[i].key = key
    THEN [i \in 1..Len(dict) |->
            IF dict[i].key = key THEN [key |-> key, value |-> value] ELSE dict[i]]
    ELSE Append(dict, [key |-> key, value |-> value])

RECURSIVE LoadLoop(_, _, _)
LoadLoop(dict, data, i) ==
    IF i > Len(data) THEN dict
    ELSE LoadLoop(DictAssign(dict, << data[i].course_id, data[i].section_id >>,
                             data[i].teacher_id),
                  data, i + 1)

\* every record of the file kept as an entry of its own
load_course_assignments_as_list(data) ==
    [i \in 1..Len(data) |->
        [key |-> << data[i].course_id, data[i].section_id >>,
         value |-> data[i].teacher_id]]

load_course_assignments_from_json(data) == LoadLoop(<< >>, data, 1)

(***************************************************************************)
(* generator.py: request builder and prioritizer.                          *)
(***************************************************************************)
\* {x.id: x for x in xs}: the last element with an id wins
LookupDict(ids) ==
    [id \in {ids[i] : i \in 1..Len(ids)} |->
        CHOOSE i \in 1..Len(ids) :
            ids[i] = id /\ \A j \in (i + 1)..Len(ids) : ids[j] # id]

\* one request per entry, whatever hours_per_week is
expand_request_once(course, section, teacher) ==
    << [course |-> course, section |-> section, teacher |-> teacher, instance |-> 1] >>

\* the instance numbers counted from 0
expand_request_from_zero(course, section, teacher) ==
    [i \in 1..course.hours_per_week |->
        [course |-> course, section |-> section, teacher |-> teacher, instance |-> i - 1]]

\* lines 105-111: for i in range(course.hours_per_week): requests.append(...)
expand_request(course, section, teacher) ==
    [i \in 1..course.hours_per_week |->
        [course |-> course, section |-> section, teacher |-> teacher, instance |-> i]]

\* the loop over the mapping left at the first entry with an unknown id
build_scheduling_requests_until_unknown(courses_, sections_, teachers_, course_assignments_) ==
    LET course_dict  == LookupDict([i \in 1..Len(courses_) |-> courses_[i].course_id])
        section_dict == LookupDict([i \in 1..Len(sections_) |-> sections_[i].section_id])
        teacher_dict == LookupDict([i \in 1..Len(teachers_) |-> teachers_[i].teacher_id])
        Known(e) == /\ e.key[1] \in DOMAIN course_dict
                    /\ e.key[2] \in DOMAIN section_dict
                    /\ e.value \in DOMAIN teacher_dict
        OfEntry(e) == expand_request(courses_[course_dict[e.key[1]]],
                                     sections_[section_dict[e.key[2]]],
                                     teachers_[teacher_dict[e.value]])
        before == { n \in 1..Len(course_assignments_) :
                      \A m \in 1..n : Known(course_assignments_[m]) }
    IN  Flatten([n \in 1..Cardinality(before) |-> OfEntry(course_assignments_[n])])

\* lines 79-113: the requests of the entries whose three ids are known, in
\* the order of the mapping
build_scheduling_requests(courses_, sections_, teachers_, course_assignments_) ==
    LET course_dict  == LookupDict([i \in 1..Len(courses_) |-> courses_[i].course_id])
        section_dict == LookupDict([i \in 1..Len(sections_) |-> sections_[i].section_id])
        teacher_dict == LookupDict([i \in 1..Len(teachers_) |-> teachers_[i].teacher_id])
        OfEntry(e) ==
            IF e.key[1] \notin DOMAIN course_dict THEN << >>
            ELSE IF e.key[2] \notin DOMAIN section_dict THEN << >>
            ELSE IF e.value \notin DOMAIN teacher_dict THEN << >>
            ELSE expand_request(courses_[course_dict[e.key[1]]],
                                sections_[section_dict[e.key[2]]],
                                teachers_[teacher_dict[e.value]])
    IN  Flatten([n \in 1..Len(course_assignments_) |-> OfEntry(course_assignments_[n])])

\* department names in ascending string order
Departments == << "Computer Science", "Mathematics" >>

StrRank(department) == CHOOSE i \in 1..Len(Departments) : Departments[i] = department

\* tuples of integers compare lexicographically
TupleLess(a, b) ==
    \E i \in 1..Len(a) : a[i] < b[i] /\ \A j \in 1..(i - 1) : a[j] = b[j]

\* sorted(xs, key=...): stable, so an element goes after the elements with a
\* smaller key and after the earlier elements with an equal key
SortedByKey(xs, keys) ==
    LET Rank(i) == 1 + Cardinality({j \in 1..Len(xs) :
                          TupleLess(keys[j], keys[i]) \/ (keys[j] = keys[i] /\ j < i)})
    IN  [r \in 1..Len(xs) |-> xs[CHOOSE i \in 1..Len(xs) : Rank(i) = r]]

\* the key with the hours ascending
priority_key_ascending_hours(req) ==
    << IF req.course.course_type = "lab" THEN 0 ELSE 1,
       req.course.hours_per_week,
       StrRank(req.section.department) >>

\* lines 121-131: (lab_priority, -hours, dept)
priority_key(req) ==
    << IF req.course.course_type = "lab" THEN 0 ELSE 1,
       0 - req.course.hours_per_week,
       StrRank(req.section.department) >>

prioritize_requests(requests_) ==
    SortedByKey(requests_, [i \in 1..Len(requests_) |-> priority_key(requests_[i])])

(***************************************************************************)
(* generator.py: candidate generation.                                     *)
(***************************************************************************)
\* rooms exactly as large as the section left out
filter_suitable_rooms_strict(course, section, rooms_) ==
    SelectSeq(rooms_,
        LAMBDA room : ~ (room.capacity <= section.student_count)
                      /\ ~ (course.course_type = "lab" /\ room.room_type # "lab"))

\* the rooms large enough, of whatever type
filter_suitable_rooms_any_type(course, section, rooms_) ==
    LET suitable == SelectSeq(rooms_,
                      LAMBDA room : ~ (room.capacity < section.student_count))
    IN  SortedByKey(suitable, [i \in 1..Len(suitable) |->
                                 << suitable[i].capacity - section.student_count >>])

\* a room kept only if it is a lab exactly when the course is a lab
filter_suitable_rooms_matching_type(course, section, rooms_) ==
    LET suitable == SelectSeq(rooms_,
                      LAMBDA room : ~ (room.capacity < section.student_count)
                                    /\ ((course.course_type = "lab")
                                           <=> (room.room_type = "lab")))
    IN  SortedByKey(suitable, [i \in 1..Len(suitable) |->
                                 << suitable[i].capacity - section.student_count >>])

\* lines 208-226: the rooms large enough, labs only for a lab course, by
\* ascending slack
filter_suitable_rooms(course, section, rooms_) ==
    LET suitable == SelectSeq(rooms_,
                      LAMBDA room : ~ (room.capacity < section.student_count)
                                    /\ ~ (course.course_type = "lab"
                                          /\ room.room_type # "lab"))
    IN  SortedByKey(suitable, [i \in 1..Len(suitable) |->
                                 << suitable[i].capacity - section.student_count >>])

\* the last slot of the universe never looked at
filter_available_slots_but_last(teacher, all_slots_) ==
    SelectSeq(SubSeq(all_slots_, 1, Len(all_slots_) - 1),
              LAMBDA slot : is_available(teacher, slot))

\* lines 228-230: the slots at which the teacher is available
filter_available_slots(teacher, all_slots_) ==
    SelectSeq(all_slots_, LAMBDA slot : is_available(teacher, slot))

\* the list _get_possible_assignments builds before it shuffles it
candidate_assignments(request, rooms_, all_slots_) ==
    LET suitable_rooms  == filter_suitable_rooms(request.course, request.section, rooms_)
        available_slots == filter_available_slots(request.teacher, all_slots_)
    IN  Flatten([r \in 1..Len(suitable_rooms) |->
                   [s \in 1..Len(available_slots) |->
                      ClassAssignment(request.course, request.section, request.teacher,
                                      suitable_rooms[r], available_slots[s])]])

\* xs without its k-th element
RemoveAt(xs, k) == SubSeq(xs, 1, k - 1) \o SubSeq(xs, k + 1, Len(xs))

\* xs with its j-th element copied to position i
SwapOverwriting(xs, i, j) == [xs EXCEPT ![i] = xs[j]]

\* xs with its i-th and j-th elements exchanged
Swap(xs, i, j) == [xs EXCEPT ![i] = xs[j], ![j] = xs[i]]

\* the next state of the seeded generator of the random module; the value it
\* yields below n is its state modulo n
RngNext(s) == (5 * s + 3) % 16

\* random.shuffle(xs) from generator state s: for i from the last position
\* down to the second, exchange position i with a position drawn in 1..i
RECURSIVE shuffle(_, _, _)
shuffle(xs, i, s) ==
    IF i < 2 THEN [list |-> xs, state |-> s]
    ELSE LET s1 == RngNext(s)
         IN  shuffle(Swap(xs, i, (s1 % i) + 1), i - 1, s1)

\* a generator seeded by the operating system: every draw is possible
Unseeded == [seeded |-> FALSE, state |-> 0]

\* _get_possible_assignments, lines 196-206: the candidates, shuffled.  With
\* a seeded generator the order is the one shuffle computes; with an unseeded
\* one any order is possible, and the list is left for the loop to draw from
possible_assignments(request, rooms_, all_slots_, rng_) ==
    LET built == candidate_assignments(request, rooms_, all_slots_)
        drawn == shuffle(built, Len(built), rng_.state)
    IN  IF rng_.seeded
        THEN [list |-> drawn.list, rng |-> [rng_ EXCEPT !.state = drawn.state]]
        ELSE [list |-> built, rng |-> rng_]

\* the positions of `pending` the for loop may take its next element from
NextElement(pending, rng_) ==
    IF rng_.seeded THEN { k \in {1} : k <= Len(pending) } ELSE 1..Len(pending)

\* the states the generator of the random module can be in
GeneratorStates ==
    { Unseeded } \cup { [seeded |-> TRUE, state |-> s] : s \in 0..15 }

\* --seed not given on the command line
NoSeed == [given |-> FALSE, value |-> 0]

\* main, lines 66-68: `if args.seed: random.seed(args.seed)`
random_seed(args_) ==
    IF args_.seed.given /\ args_.seed.value # 0
    THEN [seeded |-> TRUE, state |-> args_.seed.value % 16]
    ELSE Unseeded

(***************************************************************************)
(* State.                                                                  *)
(***************************************************************************)
VARIABLES
    \* the command line of main
    args,
    \* what main hands to the generator
    config, courses, sections, teachers, rooms, assignment_data, course_assignments,
    \* the generator of the random module; what an earlier run of main with the
    \* same command line and files returned
    rng, first_result,
    \* the caller's reference to what the previous generate call on this
    \* generator returned; `shared` when it is the list object self.assignments
    earlier,
    \* TimetableGenerator: self.assignments, self.generation_stats
    assignments, generation_stats,
    \* locals of generate / arguments of _schedule_requests
    requests, all_slots, max_attempts,
    \* the recursion of _backtrack_schedule: one frame per open call that is in
    \* its for loop; the call being entered has argument `index`; the call that
    \* just returned has returned `retval`
    stack, index, retval, pc, entry, result,
    \* a validator/auditor call on a list of assignments
    existing, candidate, verdict, ever_rejected, report

inputs == << args, config, courses, sections, teachers, rooms, assignment_data,
             course_assignments >>
runs   == << rng, first_result, earlier >>
search == << assignments, generation_stats, requests, all_slots, max_attempts,
             stack, index, retval, pc, entry, result >>
calls  == << existing, candidate, verdict, ever_rejected, report >>
vars   == << inputs, runs, search, calls >>

(***************************************************************************)
(* Inputs the model draws from.                                            *)
(***************************************************************************)
DayNames == << "Monday", "Tuesday" >>

\* TimetableConfig with one period a day and the first n days
Configs ==
    { [days |-> SubSeq(DayNames, 1, n), periods_per_day |-> 1,
       time_slots |-> (1 :> << "09:00", "10:00" >>)] : n \in 1..Len(DayNames) }

Course(course_id, name, hours_per_week, course_type) ==
    [course_id |-> course_id, name |-> name, hours_per_week |-> hours_per_week,
     course_type |-> course_type]

Section(section_id, name, department, student_count) ==
    [section_id |-> section_id, name |-> name, department |-> department,
     student_count |-> student_count]

Teacher(teacher_id, name, unavailable_slots) ==
    [teacher_id |-> teacher_id, name |-> name, unavailable_slots |-> unavailable_slots]

Room(room_id, name, capacity, room_type) ==
    [room_id |-> room_id, name |-> name, capacity |-> capacity, room_type |-> room_type]

\* an unavailable slot as load_teachers_from_json builds it: no start/end given
MondayFirst == TimeSlot("Monday", 1, "", "")

CourseLists ==
    { << Course("CS101", "Data Structures", h, t),
         Course("MA101", "Calculus", 1, "theory") >> :
        h \in 1..MaxHours, t \in {"theory", "lab"} }

SectionList ==
    << Section("S001", "CS-A", "Computer Science", 10),
       Section("S002", "MA-A", "Mathematics", 5) >>

TeacherLists ==
    { << Teacher("T001", "Dr. Sharma", u), Teacher("T002", "Dr. Patel", {}) >> :
        u \in { {}, {MondayFirst} } }

\* no room, one room of either size and type, or a classroom and a large lab
RoomLists ==
    { << >> } \cup
    { << Room("R001", "Room 101", c, t) >> : c \in {5, 10}, t \in {"classroom", "lab"} } \cup
    { << Room("R001", "Room 101", c, "classroom"), Room("L001", "Lab 201", 10, "lab") >> :
        c \in {5, 10} }

\* one course needing one session, one section of 10, one teacher who is
\* always available, one room of capacity 10, one slot
OneCourseLists == { << Course("CS101", "Data Structures", 1, t) >> : t \in {"theory", "lab"} }

OneSectionList == << Section("S001", "CS-A", "Computer Science", 10) >>

OneTeacherList == << Teacher("T001", "Dr. Sharma", {}) >>

OneRoomLists == { << Room("R001", "Room 101", 10, t) >> : t \in {"classroom", "lab"} }

OneSlotConfig ==
    [days |-> << "Monday" >>, periods_per_day |-> 1,
     time_slots |-> (1 :> << "09:00", "10:00" >>)]

Item(course_id, section_id, teacher_id) ==
    [course_id |-> course_id, section_id |-> section_id, teacher_id |-> teacher_id]

\* records of the assignments file
Items ==
    { Item("CS101", "S001", "T001"), Item("MA101", "S001", "T002"),
      Item("MA101", "S002", "T001"), Item("MA101", "S002", "T002") }

ItemLists ==
    { << >> } \cup { << a >> : a \in Items } \cup { << a, b >> : a \in Items, b \in Items }

NoAssignment == ClassAssignment(<< >>, << >>, << >>, << >>, << >>)

Pending == [status |-> "pending", value |-> << >>]

\* no earlier generate call on the generator
NoEarlier == [shared |-> FALSE, status |-> "none", value |-> << >>]

\* the caller's list after self.assignments has become list_: the same list
\* if it is the same object
WrittenThrough(earlier_, list_) ==
    IF earlier_.shared THEN [earlier_ EXCEPT !.value = list_] ELSE earlier_

\* no earlier run of main
NoRun == [status |-> "none", value |-> << >>]

\* main, lines 59-61: the command line without --max-attempts and --seed
DefaultArgs == [seed |-> NoSeed, max_attempts |-> CliMaxAttempts]

ZeroStats == [attempts |-> 0, backtracks |-> 0, conflicts_resolved |-> 0]

\* main after loading: TimetableGenerator(config) constructed, nothing generated
InitSearch ==
    /\ assignments = << >>
    /\ generation_stats = ZeroStats
    /\ requests = << >>
    /\ all_slots = << >>
    /\ max_attempts = 0
    /\ stack = << >>
    /\ index = 0
    /\ retval = FALSE
    /\ pc = "main"
    /\ entry = "none"
    /\ result = Pending

InitCalls ==
    /\ existing = << >>
    /\ candidate = NoAssignment
    /\ verdict = [is_valid |-> TRUE, conflicts |-> << >>]
    /\ ever_rejected = FALSE
    /\ report = [list |-> << >>, conflicts |-> EmptyConflicts]

Init ==
    /\ \/ /\ config \in Configs
          /\ courses \in CourseLists
          /\ sections = SectionList
          /\ teachers \in TeacherLists
          /\ rooms \in RoomLists
       \/ /\ config \in Configs
          /\ courses \in CourseLists
          /\ sections = OneSectionList
          /\ teachers = OneTeacherList
          /\ rooms \in OneRoomLists
       \/ /\ config = OneSlotConfig
          /\ courses \in OneCourseLists
          /\ sections = OneSectionList
          /\ teachers = OneTeacherList
          /\ rooms \in OneRoomLists
    /\ assignment_data \in ItemLists
    /\ course_assignments = load_course_assignments_from_json(assignment_data)
    /\ args = DefaultArgs
    /\ rng = random_seed(args)
    /\ first_result = NoRun
    /\ earlier = NoEarlier
    /\ InitSearch
    /\ InitCalls

(***************************************************************************)
(* generator.py: generate and the recursion of _backtrack_schedule.        *)
(***************************************************************************)
\* generate, lines 40-56: reset, build, prioritize, enter the search at index 0
Generate ==
    /\ pc = "main"
    /\ assignments' = << >>
    /\ generation_stats' = ZeroStats
    /\ requests' = prioritize_requests(
                     build_scheduling_requests(courses, sections, teachers,
                                               course_assignments))
    /\ all_slots' = get_all_time_slots(config)
    /\ max_attempts' = DefaultMaxAttempts
    /\ index' = 0
    /\ entry' = "generate"
    /\ pc' = "call"
    /\ UNCHANGED << inputs, runs, stack, retval, result, calls >>

\* _schedule_requests called with an explicit max_attempts
ScheduleRequests ==
    /\ pc = "main"
    /\ \E m \in 0..MaxBudget : max_attempts' = m
    /\ requests' = prioritize_requests(
                     build_scheduling_requests(courses, sections, teachers,
                                               course_assignments))
    /\ all_slots' = get_all_time_slots(config)
    /\ index' = 0
    /\ entry' = "schedule"
    /\ pc' = "call"
    /\ UNCHANGED << inputs, runs, assignments, generation_stats, stack, retval, result, calls >>

\* the base case one request early
BaseCaseEarly ==
    /\ pc = "call"
    /\ index >= Len(requests) - 1
    /\ retval' = TRUE
    /\ pc' = "return"
    /\ UNCHANGED << inputs, runs, assignments, generation_stats, requests, all_slots,
                    max_attempts, stack, index, entry, result, calls >>

\* lines 146-147: all requests scheduled
BaseCase ==
    /\ pc = "call"
    /\ index >= Len(requests)
    /\ retval' = TRUE
    /\ pc' = "return"
    /\ UNCHANGED << inputs, runs, assignments, generation_stats, requests, all_slots,
                    max_attempts, stack, index, entry, result, calls >>

\* the attempt limit looked at before the base case
AttemptLimitFirst ==
    /\ pc = "call"
    /\ generation_stats.attempts >= max_attempts
    /\ retval' = FALSE
    /\ pc' = "return"
    /\ UNCHANGED << inputs, runs, assignments, generation_stats, requests, all_slots,
                    max_attempts, stack, index, entry, result, calls >>

\* lines 150-151: the attempt limit is reached
AttemptLimit ==
    /\ pc = "call"
    /\ index < Len(requests)
    /\ generation_stats.attempts >= max_attempts
    /\ retval' = FALSE
    /\ pc' = "return"
    /\ UNCHANGED << inputs, runs, assignments, generation_stats, requests, all_slots,
                    max_attempts, stack, index, entry, result, calls >>

\* the visit not counted
VisitUncounted ==
    /\ pc = "call"
    /\ index < Len(requests)
    /\ generation_stats.attempts < max_attempts
    /\ LET possible == possible_assignments(requests[index + 1], rooms, all_slots, rng)
       IN  /\ stack' = Append(stack, [index |-> index, pending |-> possible.list])
           /\ rng' = possible.rng
    /\ pc' = "loop"
    /\ UNCHANGED << inputs, first_result, earlier, assignments, generation_stats, requests,
                    all_slots, max_attempts, index, retval, entry, result, calls >>

\* the visit with the room list filtered and sorted in place
VisitFilteringRooms ==
    /\ pc = "call"
    /\ index < Len(requests)
    /\ generation_stats.attempts < max_attempts
    /\ generation_stats' = [generation_stats EXCEPT !.attempts = @ + 1]
    /\ LET possible == possible_assignments(requests[index + 1], rooms, all_slots, rng)
       IN  /\ stack' = Append(stack, [index |-> index, pending |-> possible.list])
           /\ rng' = possible.rng
    /\ rooms' = filter_suitable_rooms(requests[index + 1].course,
                                      requests[index + 1].section, rooms)
    /\ pc' = "loop"
    /\ UNCHANGED << args, config, courses, sections, teachers, assignment_data,
                    course_assignments, first_result, earlier, assignments, requests,
                    all_slots,
                    max_attempts, index, retval, entry, result, calls >>

\* lines 153-159: count the visit and build the shuffled candidates;
\* `pending` holds the candidates the loop has not reached yet
Visit ==
    /\ pc = "call"
    /\ index < Len(requests)
    /\ generation_stats.attempts < max_attempts
    /\ generation_stats' = [generation_stats EXCEPT !.attempts = @ + 1]
    /\ LET possible == possible_assignments(requests[index + 1], rooms, all_slots, rng)
       IN  /\ stack' = Append(stack, [index |-> index, pending |-> possible.list])
           /\ rng' = possible.rng
    /\ pc' = "loop"
    /\ UNCHANGED << inputs, first_result, earlier, assignments, requests, all_slots,
                    max_attempts, index, retval, entry, result, calls >>

\* lines 162-173: the next candidate is valid: commit it and recurse
Commit ==
    /\ pc = "loop"
    /\ \E k \in NextElement(stack[Len(stack)].pending, rng) :
         LET top == stack[Len(stack)]
             assignment == top.pending[k]
         IN  /\ validate_assignment(assignment, assignments).is_valid
             /\ assignments' = Append(assignments, assignment)
             /\ stack' = [stack EXCEPT ![Len(stack)].pending = RemoveAt(@, k)]
             /\ index' = top.index + 1
    /\ earlier' = WrittenThrough(earlier, assignments')
    /\ pc' = "call"
    /\ UNCHANGED << inputs, rng, first_result, generation_stats, requests, all_slots, max_attempts,
                    retval, entry, result, calls >>

\* the loop staying on a candidate that is not valid
RejectWithoutAdvancing ==
    /\ pc = "loop"
    /\ \E k \in NextElement(stack[Len(stack)].pending, rng) :
         ~ validate_assignment(stack[Len(stack)].pending[k], assignments).is_valid
    /\ UNCHANGED vars

\* lines 162-168: the next candidate is not valid: go on with the loop
Reject ==
    /\ pc = "loop"
    /\ \E k \in NextElement(stack[Len(stack)].pending, rng) :
         LET assignment == stack[Len(stack)].pending[k]
         IN  /\ ~ validate_assignment(assignment, assignments).is_valid
             /\ stack' = [stack EXCEPT ![Len(stack)].pending = RemoveAt(@, k)]
    /\ UNCHANGED << inputs, runs, assignments, generation_stats, requests, all_slots,
                    max_attempts, index, retval, pc, entry, result, calls >>

\* the end of the loop counted as a backtrack
ExhaustedCountingBacktrack ==
    /\ pc = "loop"
    /\ stack[Len(stack)].pending = << >>
    /\ stack' = SubSeq(stack, 1, Len(stack) - 1)
    /\ generation_stats' = [generation_stats EXCEPT !.backtracks = @ + 1]
    /\ retval' = FALSE
    /\ pc' = "return"
    /\ UNCHANGED << inputs, runs, assignments, requests, all_slots, max_attempts, index,
                    entry, result, calls >>

\* line 181: the loop is over, no valid assignment found
Exhausted ==
    /\ pc = "loop"
    /\ stack[Len(stack)].pending = << >>
    /\ stack' = SubSeq(stack, 1, Len(stack) - 1)
    /\ retval' = FALSE
    /\ pc' = "return"
    /\ UNCHANGED << inputs, runs, assignments, generation_stats, requests, all_slots,
                    max_attempts, index, entry, result, calls >>

\* the loop going on after a successful recursive call
PropagateSuccessContinuing ==
    /\ pc = "return"
    /\ stack # << >>
    /\ retval = TRUE
    /\ pc' = "loop"
    /\ UNCHANGED << inputs, runs, assignments, generation_stats, requests, all_slots,
                    max_attempts, stack, index, retval, entry, result, calls >>

\* lines 173-174: the recursive call succeeded: return True
PropagateSuccess ==
    /\ pc = "return"
    /\ stack # << >>
    /\ retval = TRUE
    /\ stack' = SubSeq(stack, 1, Len(stack) - 1)
    /\ UNCHANGED << inputs, runs, assignments, generation_stats, requests, all_slots,
                    max_attempts, index, retval, pc, entry, result, calls >>

\* the undo taking the first commitment instead of the last
BacktrackPoppingFirst ==
    /\ pc = "return"
    /\ stack # << >>
    /\ retval = FALSE
    /\ assignments' = Tail(assignments)
    /\ generation_stats' = [generation_stats EXCEPT !.backtracks = @ + 1]
    /\ earlier' = WrittenThrough(earlier, assignments')
    /\ pc' = "loop"
    /\ UNCHANGED << inputs, rng, first_result, requests, all_slots, max_attempts, stack, index, retval,
                    entry, result, calls >>

\* the attempt counter started again for every request that is retried
BacktrackResettingAttempts ==
    /\ pc = "return"
    /\ stack # << >>
    /\ retval = FALSE
    /\ assignments' = SubSeq(assignments, 1, Len(assignments) - 1)
    /\ generation_stats' = [generation_stats EXCEPT !.backtracks = @ + 1,
                                                     !.attempts = 0]
    /\ earlier' = WrittenThrough(earlier, assignments')
    /\ pc' = "loop"
    /\ UNCHANGED << inputs, rng, first_result, requests, all_slots, max_attempts, stack, index, retval,
                    entry, result, calls >>

\* the failed commitment counted but left in the list
BacktrackWithoutPop ==
    /\ pc = "return"
    /\ stack # << >>
    /\ retval = FALSE
    /\ generation_stats' = [generation_stats EXCEPT !.backtracks = @ + 1]
    /\ pc' = "loop"
    /\ UNCHANGED << inputs, runs, assignments, requests, all_slots, max_attempts, stack,
                    index, retval, entry, result, calls >>

\* lines 177-178: the recursive call failed: undo the commitment
Backtrack ==
    /\ pc = "return"
    /\ stack # << >>
    /\ retval = FALSE
    /\ assignments' = SubSeq(assignments, 1, Len(assignments) - 1)
    /\ generation_stats' = [generation_stats EXCEPT !.backtracks = @ + 1]
    /\ earlier' = WrittenThrough(earlier, assignments')
    /\ pc' = "loop"
    /\ UNCHANGED << inputs, rng, first_result, requests, all_slots, max_attempts, stack, index, retval,
                    entry, result, calls >>

\* generate, lines 58-72: success, the audit, return self.assignments
GenerateSuccess ==
    /\ pc = "return"
    /\ stack = << >>
    /\ entry = "generate"
    /\ retval = TRUE
    /\ report' = [list |-> assignments, conflicts |-> find_all_conflicts(assignments)]
    /\ result' = [status |-> "assignments", value |-> assignments]
    /\ pc' = "done"
    /\ UNCHANGED << inputs, runs, assignments, generation_stats, requests, all_slots,
                    max_attempts, stack, index, retval, entry,
                    existing, candidate, verdict, ever_rejected >>

\* generate, lines 73-77: failure, return None
GenerateFailure ==
    /\ pc = "return"
    /\ stack = << >>
    /\ entry = "generate"
    /\ retval = FALSE
    /\ result' = [status |-> "None", value |-> << >>]
    /\ pc' = "done"
    /\ UNCHANGED << inputs, runs, assignments, generation_stats, requests, all_slots,
                    max_attempts, stack, index, retval, entry, calls >>

\* _schedule_requests, line 139: return what the search returned
ScheduleReturn ==
    /\ pc = "return"
    /\ stack = << >>
    /\ entry = "schedule"
    /\ result' = [status |-> IF retval THEN "True" ELSE "False", value |-> << >>]
    /\ pc' = "done"
    /\ UNCHANGED << inputs, runs, assignments, generation_stats, requests, all_slots,
                    max_attempts, stack, index, retval, entry, calls >>

Next ==
    \/ Generate
    \/ ScheduleRequests
    \/ BaseCase
    \/ AttemptLimit
    \/ Visit
    \/ Commit
    \/ Reject
    \/ Exhausted
    \/ PropagateSuccess
    \/ Backtrack
    \/ GenerateSuccess
    \/ GenerateFailure
    \/ ScheduleReturn

Spec == Init /\ [][Next]_vars

(***************************************************************************)
(* The search on the inputs with one section, one teacher and one room,    *)
(* run by an interpreter that does not stop: a step that can be taken is   *)
(* taken.                                                                  *)
(***************************************************************************)
InitSmall ==
    /\ config \in Configs
    /\ courses \in CourseLists
    /\ sections = OneSectionList
    /\ teachers = OneTeacherList
    /\ rooms \in OneRoomLists
    /\ assignment_data \in ItemLists
    /\ course_assignments = load_course_assignments_from_json(assignment_data)
    /\ args = DefaultArgs
    /\ rng = random_seed(args)
    /\ first_result = NoRun
    /\ earlier = NoEarlier
    /\ InitSearch
    /\ InitCalls

FairSpec == InitSmall /\ [][Next]_vars /\ WF_vars(Next)

(***************************************************************************)
(* main.py: main run with a command line, and run a second time with the   *)
(* same command line and the same files.                                   *)
(***************************************************************************)
\* --seed with a value, or without
Seeds == { NoSeed } \cup { [given |-> TRUE, value |-> v] : v \in 0..MaxSeed }

\* --max-attempts with a value, or without
ArgLists == { [seed |-> s, max_attempts |-> m] : s \in Seeds, m \in {1, CliMaxAttempts} }

InitMain ==
    /\ config \in Configs
    /\ courses \in CourseLists
    /\ sections = SectionList
    /\ teachers \in TeacherLists
    /\ rooms \in RoomLists
    /\ assignment_data \in { << a >> : a \in Items }
    /\ course_assignments = load_course_assignments_from_json(assignment_data)
    /\ args \in ArgLists
    /\ rng = random_seed(args)
    /\ first_result = NoRun
    /\ earlier = NoEarlier
    /\ InitSearch
    /\ InitCalls

\* main has returned; it is started again: a new process, seeded as the
\* first, loads the same files and constructs a new generator
Rerun ==
    /\ pc = "done"
    /\ entry = "generate"
    /\ first_result = NoRun
    /\ first_result' = result
    /\ rng' = random_seed(args)
    /\ earlier' = NoEarlier
    /\ assignments' = << >>
    /\ generation_stats' = ZeroStats
    /\ requests' = << >>
    /\ all_slots' = << >>
    /\ max_attempts' = 0
    /\ stack' = << >>
    /\ index' = 0
    /\ retval' = FALSE
    /\ pc' = "main"
    /\ entry' = "none"
    /\ result' = Pending
    /\ report' = [list |-> << >>, conflicts |-> EmptyConflicts]
    /\ UNCHANGED << inputs, existing, candidate, verdict, ever_rejected >>

NextMain ==
    \/ Generate
    \/ BaseCase
    \/ Visit
    \/ Commit
    \/ Reject
    \/ Exhausted
    \/ PropagateSuccess
    \/ Backtrack
    \/ GenerateSuccess
    \/ GenerateFailure
    \/ Rerun

SpecMain == InitMain /\ [][NextMain]_vars

(***************************************************************************)
(* generate called again and again on one generator, the caller keeping    *)
(* what the previous call returned.                                        *)
(***************************************************************************)
\* the room lists a later call may be given
LaterRoomLists == OneRoomLists \cup { << >> }

\* the list emptied in place instead of replaced by a new one
GenerateAgainClearingInPlace ==
    /\ pc = "done"
    /\ entry = "generate"
    /\ earlier' = [shared |-> result.status = "assignments", status |-> result.status,
                   value |-> << >>]
    /\ assignments' = << >>
    /\ generation_stats' = ZeroStats
    /\ \E r \in LaterRoomLists : rooms' = r
    /\ requests' = prioritize_requests(
                     build_scheduling_requests(courses, sections, teachers,
                                               course_assignments))
    /\ all_slots' = get_all_time_slots(config)
    /\ max_attempts' = DefaultMaxAttempts
    /\ index' = 0
    /\ result' = Pending
    /\ pc' = "call"
    /\ UNCHANGED << args, config, courses, sections, teachers, assignment_data,
                    course_assignments, rng, first_result, stack, retval, entry, calls >>

\* generate, lines 40-56, called on a generator whose previous generate call
\* has returned: the caller keeps the returned list (the object that was
\* self.assignments), self.assignments becomes a new empty list
GenerateAgain ==
    /\ pc = "done"
    /\ entry = "generate"
    /\ earlier' = [shared |-> FALSE, status |-> result.status, value |-> result.value]
    /\ assignments' = << >>
    /\ generation_stats' = ZeroStats
    /\ \E r \in LaterRoomLists : rooms' = r
    /\ requests' = prioritize_requests(
                     build_scheduling_requests(courses, sections, teachers,
                                               course_assignments))
    /\ all_slots' = get_all_time_slots(config)
    /\ max_attempts' = DefaultMaxAttempts
    /\ index' = 0
    /\ result' = Pending
    /\ pc' = "call"
    /\ UNCHANGED << args, config, courses, sections, teachers, assignment_data,
                    course_assignments, rng, first_result, stack, retval, entry, calls >>

NextAgain ==
    \/ Generate
    \/ BaseCase
    \/ Visit
    \/ Commit
    \/ Reject
    \/ Exhausted
    \/ PropagateSuccess
    \/ Backtrack
    \/ GenerateSuccess
    \/ GenerateFailure
    \/ GenerateAgain

SpecAgain == InitSmall /\ [][NextAgain]_vars

(***************************************************************************)
(* The validator and the auditor called on arbitrary assignment lists:     *)
(* validate_assignment(candidate, existing), the insertion of the          *)
(* candidate whatever the verdict, find_all_conflicts(existing).           *)
(***************************************************************************)
PoolSlots == { TimeSlot("Monday", 1, "09:00", "10:00"),
               TimeSlot("Tuesday", 1, "09:00", "10:00") }

PoolRooms == { Room("R001", "Room 101", 5, "classroom"),
               Room("L001", "Lab 201", 10, "lab") }

PoolSections == { SectionList[1], SectionList[2] }

\* a teacher and the course the teacher gives
PoolTeaching ==
    { << Teacher("T001", "Dr. Sharma", {MondayFirst}),
         Course("CS101", "Data Structures", 1, "theory") >>,
      << Teacher("T002", "Dr. Patel", {}),
         Course("CS104", "Programming Lab", 1, "lab") >> }

AssignmentPool ==
    { ClassAssignment(tc[2], s, tc[1], r, t) :
        tc \in PoolTeaching, s \in PoolSections, r \in PoolRooms, t \in PoolSlots }

InitCheck ==
    /\ config = OneSlotConfig
    /\ courses = << >>
    /\ sections = << >>
    /\ teachers = << >>
    /\ rooms = << >>
    /\ assignment_data = << >>
    /\ course_assignments = << >>
    /\ args = DefaultArgs
    /\ rng = Unseeded
    /\ first_result = NoRun
    /\ earlier = NoEarlier
    /\ InitSearch
    /\ InitCalls

\* validate_assignment(a, existing)
Validate ==
    /\ candidate = NoAssignment
    /\ \E a \in AssignmentPool :
         /\ candidate' = a
         /\ verdict' = validate_assignment(a, existing)
    /\ UNCHANGED << inputs, runs, search, existing, ever_rejected, report >>

\* existing.append(candidate), after its validation
Insert ==
    /\ candidate # NoAssignment
    /\ Len(existing) < MaxList
    /\ existing' = Append(existing, candidate)
    /\ ever_rejected' = (ever_rejected \/ ~ verdict.is_valid)
    /\ candidate' = NoAssignment
    /\ verdict' = [is_valid |-> TRUE, conflicts |-> << >>]
    /\ UNCHANGED << inputs, runs, search, report >>

\* find_all_conflicts(existing)
Audit ==
    /\ report.list # existing
    /\ report' = [list |-> existing, conflicts |-> find_all_conflicts(existing)]
    /\ UNCHANGED << inputs, runs, search, existing, candidate, verdict, ever_rejected >>

NextCheck ==
    \/ Validate
    \/ Insert
    \/ Audit

SpecCheck == InitCheck /\ [][NextCheck]_vars

(***************************************************************************)
(* The auditor called on arbitrary assignment lists, validated or not.     *)
(***************************************************************************)
\* the caller's list grows by any assignment
Extend ==
    /\ Len(existing) < MaxAudit
    /\ \E a \in AssignmentPool : existing' = Append(existing, a)
    /\ UNCHANGED << inputs, runs, search, candidate, verdict, ever_rejected, report >>

NextAudit ==
    \/ Extend
    \/ Audit

SpecAudit == InitCheck /\ [][NextAudit]_vars

(***************************************************************************)
(* Properties.  The six hard constraints are stated here on the fields of  *)
(* the assignments, not through the validator.                             *)
(***************************************************************************)
SameSlot(a, b) ==
    a.time_slot.day = b.time_slot.day /\ a.time_slot.period = b.time_slot.period

Clash(a, b) ==
    /\ SameSlot(a, b)
    /\ \/ a.teacher.teacher_id = b.teacher.teacher_id
       \/ a.room.room_id = b.room.room_id
       \/ a.section.section_id = b.section.section_id

RoomFits(a) == a.room.capacity >= a.section.student_count

TeacherFree(a) ==
    \A u \in a.teacher.unavailable_slots :
        ~ (u.day = a.time_slot.day /\ u.period = a.time_slot.period)

LabInLab(a) == a.course.course_type = "lab" => a.room.room_type = "lab"

Feasible(list) ==
    /\ \A i, j \in 1..Len(list) : i < j => ~ Clash(list[i], list[j])
    /\ \A i \in 1..Len(list) : RoomFits(list[i]) /\ TeacherFree(list[i]) /\ LabInLab(list[i])

GenerateDone == pc = "done" /\ entry = "generate"

Succeeded == GenerateDone /\ result.status = "assignments"

\* C1: in the list a successful generation returns, no two distinct
\* assignments share (teacher, slot), (room, slot) or (section, slot), slots
\* compared by (day, period).
C1_NoDoubleBooking ==
    Succeeded =>
        \A i, j \in 1..Len(result.value) :
            i < j => ~ Clash(result.value[i], result.value[j])

\* a success whose list has two assignments of one section with different
\* teachers, and more rooms than one to put them in
C1_Witness ==
    /\ Succeeded
    /\ Len(rooms) = 2
    /\ \E i, j \in 1..Len(result.value) :
         /\ i < j
         /\ result.value[i].section.section_id = result.value[j].section.section_id
         /\ result.value[i].teacher.teacher_id # result.value[j].teacher.teacher_id

\* C2: every assignment of a successful generation has a room at least as
\* large as its section, a teacher available at its slot, and a lab room if
\* its course is a lab.
C2_PerAssignmentConstraints ==
    Succeeded =>
        \A i \in 1..Len(result.value) :
            /\ RoomFits(result.value[i])
            /\ TeacherFree(result.value[i])
            /\ LabInLab(result.value[i])

\* a success that placed a lab course of a teacher with an unavailable slot,
\* with a room that is too small and not a lab among the rooms
C2_Witness ==
    /\ Succeeded
    /\ \E i \in 1..Len(result.value) :
         /\ result.value[i].course.course_type = "lab"
         /\ result.value[i].teacher.unavailable_slots # {}
         /\ \E r \in 1..Len(rooms) :
              /\ rooms[r].capacity < result.value[i].section.student_count
              /\ rooms[r].room_type # "lab"

\* C3: generate ends in one of two ways: it returns a list that has one
\* assignment for every request, in request order, and meets the six hard
\* constraints, or it returns None; never a list for part of the requests.
C3_AllOrNothing ==
    GenerateDone =>
        \/ result.status = "None"
        \/ /\ result.status = "assignments"
           /\ Len(result.value) = Len(requests)
           /\ \A k \in 1..Len(requests) :
                /\ result.value[k].course.course_id = requests[k].course.course_id
                /\ result.value[k].section.section_id = requests[k].section.section_id
                /\ result.value[k].teacher.teacher_id = requests[k].teacher.teacher_id
           /\ Feasible(result.value)

\* a success for three requests
C3_Witness == Succeeded /\ Len(requests) = 3 /\ Len(result.value) = 3

\* the entries of the mapping whose three ids are known
Resolved ==
    { n \in 1..Len(course_assignments) :
        /\ \E i \in 1..Len(courses) : courses[i].course_id = course_assignments[n].key[1]
        /\ \E i \in 1..Len(sections) : sections[i].section_id = course_assignments[n].key[2]
        /\ \E i \in 1..Len(teachers) : teachers[i].teacher_id = course_assignments[n].value }

HoursOf(n) ==
    LET c == CHOOSE i \in 1..Len(courses) :
                 courses[i].course_id = course_assignments[n].key[1]
    IN  courses[c].hours_per_week

RECURSIVE SumHours(_)
SumHours(entries) ==
    IF entries = {} THEN 0
    ELSE LET n == CHOOSE x \in entries : TRUE
         IN  HoursOf(n) + SumHours(entries \ {n})

AssignmentsOf(list, n) ==
    { i \in 1..Len(list) :
        /\ list[i].course.course_id = course_assignments[n].key[1]
        /\ list[i].section.section_id = course_assignments[n].key[2]
        /\ list[i].teacher.teacher_id = course_assignments[n].value }

\* C4: on success the list has as many assignments as the resolved entries
\* have hours_per_week in total, and for each resolved entry exactly
\* hours_per_week assignments of its triple, on pairwise distinct slots.
C4_OnePerRequest ==
    Succeeded =>
        /\ Len(result.value) = SumHours(Resolved)
        /\ \A n \in Resolved :
             /\ Cardinality(AssignmentsOf(result.value, n)) = HoursOf(n)
             /\ \A i, j \in AssignmentsOf(result.value, n) :
                  i # j => ~ SameSlot(result.value[i], result.value[j])

\* a success with an entry of two hours a week and another entry
C4_Witness ==
    /\ Succeeded
    /\ Cardinality(Resolved) = 2
    /\ \E n \in Resolved : HoursOf(n) = 2

\* what validate_assignment has to accept
Acceptable(a, list) ==
    /\ \A i \in 1..Len(list) : ~ Clash(a, list[i])
    /\ RoomFits(a)
    /\ TeacherFree(a)
    /\ LabInLab(a)

\* C5: validate_assignment returns is_valid = true exactly when its list of
\* violations is empty, and exactly when the candidate clashes with no
\* existing assignment on teacher, room or section, its room is large
\* enough, its teacher is available and a lab course has a lab room.
C5_ValidIffNoViolation ==
    candidate # NoAssignment =>
        /\ verdict.is_valid <=> (verdict.conflicts = << >>)
        /\ verdict.is_valid <=> Acceptable(candidate, existing)

\* a candidate accepted against a list that holds its teacher, its room and
\* its section at the other slot, in a room exactly as large as the section
C5_Witness ==
    /\ candidate # NoAssignment
    /\ verdict.is_valid
    /\ candidate.room.capacity = candidate.section.student_count
    /\ \E i \in 1..Len(existing) :
         /\ existing[i].teacher.teacher_id = candidate.teacher.teacher_id
         /\ existing[i].room.room_id = candidate.room.room_id
         /\ existing[i].section.section_id = candidate.section.section_id

ViolatedKinds(a, list) ==
         { "Teacher conflict" : i \in { i \in 1..Len(list) :
              SameSlot(a, list[i]) /\ a.teacher.teacher_id = list[i].teacher.teacher_id } }
    \cup { "Room conflict" : i \in { i \in 1..Len(list) :
              SameSlot(a, list[i]) /\ a.room.room_id = list[i].room.room_id } }
    \cup { "Section conflict" : i \in { i \in 1..Len(list) :
              SameSlot(a, list[i]) /\ a.section.section_id = list[i].section.section_id } }
    \cup (IF RoomFits(a) THEN {} ELSE { "Capacity conflict" })
    \cup (IF TeacherFree(a) THEN {} ELSE { "Availability conflict" })
    \cup (IF LabInLab(a) THEN {} ELSE { "Room type conflict" })

ReportedKinds == { verdict.conflicts[i].kind : i \in 1..Len(verdict.conflicts) }

\* C6: one call reports every kind of violation of the candidate and no
\* other kind: the kinds in the list of violations are the kinds of the
\* constraints the candidate violates.
C6_AllViolationsReported ==
    candidate # NoAssignment => ReportedKinds = ViolatedKinds(candidate, existing)

\* a candidate too large for its room whose teacher is already booked at its
\* slot: both are in the list of violations
C6_Witness ==
    /\ candidate # NoAssignment
    /\ ~ RoomFits(candidate)
    /\ \E i \in 1..Len(existing) :
         /\ SameSlot(candidate, existing[i])
         /\ candidate.teacher.teacher_id = existing[i].teacher.teacher_id
    /\ { "Capacity conflict", "Teacher conflict" } \subseteq ReportedKinds

\* C7: for a list audited as a whole, find_all_conflicts counts at least one
\* conflict exactly when the validator rejected one of its elements against
\* the elements before it.
C7_ValidatorAuditorAgree ==
    report.list = existing =>
        (ever_rejected <=> count_conflicts(report.conflicts) > 0)

\* an audited list of two whose only violation is a lab course in a classroom
C7_Witness ==
    /\ report.list = existing
    /\ Len(existing) = 2
    /\ ever_rejected
    /\ \A i \in 1..2 : RoomFits(existing[i]) /\ TeacherFree(existing[i])
    /\ ~ Clash(existing[1], existing[2])
    /\ count_conflicts(report.conflicts) > 0

NoUsableRoom(request) ==
    ~ \E r \in 1..Len(rooms) :
        /\ rooms[r].capacity >= request.section.student_count
        /\ (request.course.course_type = "lab" => rooms[r].room_type = "lab")

NothingUsable ==
    /\ GenerateDone
    /\ Len(requests) >= 1
    /\ \A k \in 1..Len(requests) : NoUsableRoom(requests[k])

\* C8: with at least one request and no usable room for any request,
\* generate fails with nothing committed, exactly 1 attempt and 0 backtracks.
C8_ExhaustionReport ==
    NothingUsable =>
        /\ result.status = "None"
        /\ assignments = << >>
        /\ generation_stats.attempts = 1
        /\ generation_stats.backtracks = 0

\* generate ended with two requests or more and rooms that are all too small
C8_Witness ==
    /\ NothingUsable
    /\ Len(requests) >= 2
    /\ rooms # << >>
    /\ \A r \in 1..Len(rooms), k \in 1..Len(requests) :
         rooms[r].capacity < requests[k].section.student_count

\* one course of one session, one section of 10, one teacher always
\* available, one room of capacity 10 of the course's type, one slot
OneSlotScenario ==
    /\ config = OneSlotConfig
    /\ courses \in OneCourseLists
    /\ sections = OneSectionList
    /\ teachers = OneTeacherList
    /\ rooms \in OneRoomLists
    /\ (courses[1].course_type = "lab") <=> (rooms[1].room_type = "lab")

TheTriple == Item("CS101", "S001", "T001")

TripleTwice == OneSlotScenario /\ assignment_data = << TheTriple, TheTriple >> /\ GenerateDone

\* C9 as claimed: with the triple given twice, generate returns failure.
C9_DuplicateFails == TripleTwice => result.status = "None"

\* C9: in the one-slot scenario a second identical triple in the input is the
\* same key of the mapping, so the mapping keeps one entry and generate
\* returns the one assignment it returns without the duplicate: no failure
\* and no double booking.
C9_DuplicateCollapses ==
    TripleTwice =>
        /\ Len(course_assignments) = 1
        /\ result.status = "assignments"
        /\ Len(result.value) = 1
        /\ Feasible(result.value)

\* generate ended on the input with the triple given twice
C9_Witness == TripleTwice /\ Len(requests) = 1

TripleOnce == OneSlotScenario /\ assignment_data = << TheTriple >> /\ GenerateDone

\* C10: in the one-slot scenario generate succeeds and returns exactly one
\* assignment, in the one room at the one slot.
C10_OneSlotSucceeds ==
    TripleOnce =>
        /\ result.status = "assignments"
        /\ Len(result.value) = 1
        /\ result.value[1].room.room_id = rooms[1].room_id
        /\ result.value[1].time_slot.day = "Monday"
        /\ result.value[1].time_slot.period = 1
        /\ result.value[1].course.course_id = "CS101"
        /\ result.value[1].section.section_id = "S001"
        /\ result.value[1].teacher.teacher_id = "T001"

\* generate ended on the one-slot input after one visit and no backtrack
C10_Witness ==
    /\ TripleOnce
    /\ generation_stats.attempts = 1
    /\ generation_stats.backtracks = 0

(***************************************************************************)
(* main run twice with the same command line and the same files.           *)
(***************************************************************************)
\* the second run of main has returned from generate
SecondRunDone == GenerateDone /\ first_result # NoRun

\* C11: two generation runs with identical inputs and the identical seed
\* value, whatever integer the caller gives as the seed, return identical
\* assignment lists, element for element and in the same order: when the
\* second run of main with a --seed has returned, it has returned what the
\* first run returned.
C11_SameSeedSameList ==
    (SecondRunDone /\ args.seed.given) => result = first_result

\* C14: the attempt limit supplied on the command line (--max-attempts) is
\* the budget the search enforces: a generation run never performs more
\* request-index visits than the supplied limit.
C14_SuppliedLimitEnforced ==
    entry = "generate" => generation_stats.attempts <= args.max_attempts

(***************************************************************************)
(* The request builder.                                                    *)
(***************************************************************************)
\* generate or _schedule_requests has just built and prioritized the
\* requests and is entering the search
RequestsBuilt == pc = "call" /\ index = 0

\* the requests built for the n-th entry of the mapping
RequestsOf(n) ==
    { i \in 1..Len(requests) :
        /\ requests[i].course.course_id = course_assignments[n].key[1]
        /\ requests[i].section.section_id = course_assignments[n].key[2]
        /\ requests[i].teacher.teacher_id = course_assignments[n].value }

\* C12: the request builder expands every resolved entry of the mapping into
\* exactly course.hours_per_week requests carrying the instance numbers
\* 1..hours_per_week, so the number of requests is the sum of hours_per_week
\* over the resolved entries.
C12_ExpansionByHours ==
    RequestsBuilt =>
        /\ Len(requests) = SumHours(Resolved)
        /\ \A n \in Resolved :
             /\ Cardinality(RequestsOf(n)) = HoursOf(n)
             /\ { requests[i].instance : i \in RequestsOf(n) } = 1..HoursOf(n)

\* requests built from an entry of two hours a week and another entry
C12_Witness ==
    /\ RequestsBuilt
    /\ Cardinality(Resolved) = 2
    /\ \E n \in Resolved : HoursOf(n) = 2 /\ Cardinality(RequestsOf(n)) = 2

\* C13: an entry of the mapping whose course id, section id or teacher id
\* is unknown contributes no request and does not abort the generation;
\* every other entry contributes its hours_per_week requests, and the
\* search is entered with them.
C13_UnknownIdSkipped ==
    RequestsBuilt =>
        \A n \in 1..Len(course_assignments) :
            Cardinality(RequestsOf(n)) = IF n \in Resolved THEN HoursOf(n) ELSE 0

\* a generation that succeeded for an entry that comes after an entry with
\* an unknown id
C13_Witness ==
    /\ Succeeded
    /\ Len(result.value) > 0
    /\ \E n, m \in 1..Len(course_assignments) :
         n < m /\ n \notin Resolved /\ m \in Resolved

(***************************************************************************)
(* The auditor's double-booking records.                                   *)
(***************************************************************************)
ResourceKinds == { "teacher", "room", "section" }

ResourceOf(kind, a) ==
    CASE kind = "teacher" -> a.teacher.teacher_id
      [] kind = "room"    -> a.room.room_id
      [] kind = "section" -> a.section.section_id

ResourceNameOf(kind, a) ==
    CASE kind = "teacher" -> a.teacher.name
      [] kind = "room"    -> a.room.name
      [] kind = "section" -> a.section.name

RecordsOf(conflicts, kind) ==
    CASE kind = "teacher" -> conflicts.teacher_conflicts
      [] kind = "room"    -> conflicts.room_conflicts
      [] kind = "section" -> conflicts.section_conflicts

RecordResource(kind, rec) ==
    CASE kind = "teacher" -> rec.teacher
      [] kind = "room"    -> rec.room
      [] kind = "section" -> rec.section

\* the positions before j whose assignment has the resource and the slot of
\* the j-th assignment
EarlierOnPair(list, kind, j) ==
    { i \in 1..(j - 1) :
        /\ ResourceOf(kind, list[i]) = ResourceOf(kind, list[j])
        /\ SameSlot(list[i], list[j]) }

\* the positions whose assignment lands on an occupied (resource, slot) pair
Landing(list, kind) ==
    { j \in 1..Len(list) : EarlierOnPair(list, kind, j) # {} }

\* the m-th smallest element of a set of numbers
NthOf(S, m) == CHOOSE j \in S : Cardinality({ x \in S : x <= j }) = m

\* the largest element of a set of numbers
Latest(S) == CHOOSE i \in S : \A x \in S : x <= i

\* C15: for each resource kind (teacher, room, section) the auditor records
\* exactly one conflict, in list order, for every assignment that lands on a
\* (resource, slot) pair occupied by an earlier assignment; the record
\* names the resource and carries the course name of the assignment that
\* held the pair (the latest earlier one) and the course name of the
\* assignment that landed on it.  So k assignments on one pair yield k - 1
\* records of that kind, and a list with no shared pair yields none.
C15_OneRecordPerLanding ==
    \A kind \in ResourceKinds :
        LET list == report.list
            recs == RecordsOf(report.conflicts, kind)
            land == Landing(list, kind)
        IN  /\ Len(recs) = Cardinality(land)
            /\ \A m \in 1..Len(recs) :
                 LET j == NthOf(land, m)
                     i == Latest(EarlierOnPair(list, kind, j))
                 IN  /\ RecordResource(kind, recs[m]) = ResourceNameOf(kind, list[j])
                     /\ recs[m].courses = << list[i].course.name, list[j].course.name >>

\* an audit of three assignments in one room at one slot, the first two of
\* different courses, the third of different teacher and section than the
\* second: two room records, one teacher record
C15_Witness ==
    /\ Len(report.list) = 3
    /\ \A i, j \in 1..3 :
         /\ report.list[i].room.room_id = report.list[j].room.room_id
         /\ SameSlot(report.list[i], report.list[j])
    /\ report.list[1].course.name # report.list[2].course.name
    /\ report.list[3].course.name = report.list[1].course.name
    /\ Len(report.conflicts.room_conflicts) = 2
    /\ Len(report.conflicts.teacher_conflicts) = 1

(***************************************************************************)
(* Time slots and teacher availability.                                    *)
(***************************************************************************)
\* the unavailable set holds a slot with the day and the period of time_slot
MarkedUnavailable(teacher, time_slot) ==
    \E u \in teacher.unavailable_slots :
        u.day = time_slot.day /\ u.period = time_slot.period

\* C16: time slots are equal by (day, period) only: is_available(slot) is
\* false exactly when the teacher's unavailable set holds a slot with the
\* same day and period, whatever the start/end strings are; so in every
\* state of the search no committed assignment and no candidate of an open
\* loop puts a teacher on a slot whose (day, period) is marked unavailable.
C16_AvailabilityByDayPeriod ==
    /\ \A t \in 1..Len(teachers) : \A n \in 1..Len(all_slots) :
         is_available(teachers[t], all_slots[n])
             <=> ~ MarkedUnavailable(teachers[t], all_slots[n])
    /\ \A i \in 1..Len(assignments) :
         ~ MarkedUnavailable(assignments[i].teacher, assignments[i].time_slot)
    /\ \A f \in 1..Len(stack) : \A k \in 1..Len(stack[f].pending) :
         ~ MarkedUnavailable(stack[f].pending[k].teacher, stack[f].pending[k].time_slot)

\* a teacher whose unavailable slot carries other start/end strings than the
\* slot of the same day and period in the slot universe has been committed
\* to another slot
C16_Witness ==
    /\ pc = "done"
    /\ \E i \in 1..Len(assignments) : \E n \in 1..Len(all_slots) :
         /\ MarkedUnavailable(assignments[i].teacher, all_slots[n])
         /\ all_slots[n] \notin assignments[i].teacher.unavailable_slots
         /\ ~ SameSlot(assignments[i], [time_slot |-> all_slots[n]])

(***************************************************************************)
(* What the search writes.                                                 *)
(***************************************************************************)
\* C17: the search changes only the committed list and the counters: no
\* step of a generation run, successful or failed, changes a Course, a
\* Section, a Teacher or its unavailable set, a Room, the room list or the
\* mapping, and once generate has built the slot universe and the requests
\* no step changes them.
C17_EntitiesUntouched ==
    [][ /\ courses' = courses
        /\ sections' = sections
        /\ teachers' = teachers
        /\ rooms' = rooms
        /\ course_assignments' = course_assignments
        /\ config' = config
        /\ pc # "main" => (all_slots' = all_slots /\ requests' = requests) ]_vars

\* a run that has backtracked and returned, with a room too small for a
\* requested section and a teacher with an unavailable slot among the inputs
C17_Witness ==
    /\ pc = "done"
    /\ generation_stats.backtracks > 0
    /\ \E r \in 1..Len(rooms) : \E n \in 1..Len(requests) :
         rooms[r].capacity < requests[n].section.student_count
    /\ \E t \in 1..Len(teachers) : teachers[t].unavailable_slots # {}

(***************************************************************************)
(* The search as a walk over the request index.                            *)
(***************************************************************************)
\* _backtrack_schedule is being entered with index i, or is in its loop at
\* index i between two candidates
Visiting(i) ==
    \/ pc = "call" /\ index = i
    \/ pc = "loop" /\ stack[Len(stack)].index = i

\* C18: in every reachable state, whenever the search is at request index
\* i, i is at most the number of requests, the committed list holds exactly
\* i assignments, its k-th assignment has the course, section and teacher
\* of the k-th prioritized request, and the committed list meets the six
\* hard constraints.
C18_IndexIsCommittedPrefix ==
    /\ \A i \in 0..(Len(requests) + 1) :
         Visiting(i) =>
             /\ i <= Len(requests)
             /\ Len(assignments) = i
             /\ \A k \in 1..i :
                  /\ assignments[k].course.course_id = requests[k].course.course_id
                  /\ assignments[k].section.section_id = requests[k].section.section_id
                  /\ assignments[k].teacher.teacher_id = requests[k].teacher.teacher_id
    /\ pc \in {"call", "loop"} => \E i \in 0..Len(requests) : Visiting(i)
    /\ Feasible(assignments)

\* the third of three requests is visited after a backtrack
C18_Witness ==
    /\ Len(requests) = 3
    /\ Visiting(2)
    /\ Len(assignments) = 2
    /\ generation_stats.backtracks > 0

(***************************************************************************)
(* The attempt budget.                                                     *)
(***************************************************************************)
\* a visit to a non-terminal index finds the attempt counter at max_attempts
LimitFound ==
    /\ pc = "call"
    /\ index < Len(requests)
    /\ generation_stats.attempts >= max_attempts

\* the call has returned failure: None from generate, False from
\* _schedule_requests
Failed == pc = "done" /\ result.status \in {"None", "False"}

\* the budget is spent and the search is neither at the terminal index nor
\* returning success, nor in a loop whose next commitment reaches the
\* terminal index
Lost ==
    /\ pc \in {"call", "loop", "return", "done"}
    /\ generation_stats.attempts >= max_attempts
    /\ \A f \in 1..Len(stack) : stack[f].index + 1 < Len(requests)
    /\ pc = "call" => index < Len(requests)
    /\ pc = "return" => retval = FALSE
    /\ pc = "done" => Failed

\* C19: when a visit to a non-terminal request index finds the attempt
\* counter at max_attempts, the search is lost whatever candidates are left
\* untried at shallower indices: the counter is never lowered, no request
\* is visited again, the terminal index is never reached, and when the call
\* returns it returns failure.
C19_BudgetEndsSearch ==
    /\ [](LimitFound => Lost)
    /\ [][Lost => Lost']_vars

\* a search with a budget of one visit has returned failure after the limit
\* was found at the second request under two candidates of the first
C19_Witness ==
    /\ Failed
    /\ max_attempts = 1
    /\ generation_stats.attempts = 1
    /\ generation_stats.backtracks = 2

\* a visit to a non-terminal index within the budget
VisitWithinBudget ==
    /\ pc = "call"
    /\ index < Len(requests)
    /\ generation_stats.attempts < max_attempts

\* C20: the attempt counter grows by exactly one on each visit to a
\* non-terminal request index that is within the budget, and no other step
\* changes it; in every reachable state it is at most max_attempts; and a
\* call that reaches the terminal index returns success whatever the
\* counter is, so a search that needs exactly max_attempts visits succeeds.
C20_AttemptsCountVisits ==
    /\ [](generation_stats.attempts <= max_attempts)
    /\ [][ generation_stats'.attempts =
             IF VisitWithinBudget THEN generation_stats.attempts + 1
                                  ELSE generation_stats.attempts ]_vars
    /\ [][ (pc = "call" /\ index >= Len(requests))
             => (pc' = "return" /\ retval' = TRUE) ]_vars

\* a search of two requests with a budget of two visits has returned success
C20_Witness ==
    /\ pc = "done"
    /\ result.status = "True"
    /\ Len(requests) = 2
    /\ max_attempts = 2
    /\ generation_stats.attempts = 2

(***************************************************************************)
(* Undoing and first success.                                              *)
(***************************************************************************)
\* the index of the call that has just returned: one more than the index of
\* its caller, 0 for the outermost call
ReturnedIndex == IF stack = << >> THEN 0 ELSE stack[Len(stack)].index + 1

\* C21: a search call at index i that returns failure leaves the committed
\* list as it was on entry: while a call at index i is open no step touches
\* the first i assignments, a call that returns failure from index i leaves
\* exactly i assignments once the caller has undone its own commitment, and
\* after a failed generation the committed list is empty.
C21_FailureRestoresList ==
    /\ [][ \A f \in 1..Len(stack) :
             (f <= Len(stack') /\ stack'[f].index = stack[f].index)
                 => SubSeq(assignments', 1, stack[f].index)
                        = SubSeq(assignments, 1, stack[f].index) ]_vars
    /\ []((pc = "return" /\ ~ retval) => Len(assignments) = ReturnedIndex)
    /\ []((GenerateDone /\ result.status = "None") => assignments = << >>)

\* a generation has failed after undoing commitments at two levels
C21_Witness ==
    /\ GenerateDone
    /\ result.status = "None"
    /\ Len(requests) = 3
    /\ generation_stats.backtracks >= 3
    /\ assignments = << >>

\* the terminal index has been reached, or success is on its way up
Won ==
    \/ pc = "call" /\ index >= Len(requests)
    \/ pc = "return" /\ retval

\* C22: success is first success: once the search has reached the terminal
\* index, every step returns success from one more level: no candidate is
\* taken from any loop, the committed list and the attempt and backtrack
\* counters do not change, and what generate returns is the committed list
\* as it was when the terminal index was reached.
C22_FirstSuccess ==
    [][ Won =>
          /\ assignments' = assignments
          /\ generation_stats' = generation_stats
          /\ Len(stack') <= Len(stack)
          /\ stack' = SubSeq(stack, 1, Len(stack'))
          /\ \/ pc' = "return" /\ retval'
             \/ /\ pc' = "done"
                /\ result'.status \in {"assignments", "True"}
                /\ result'.status = "assignments" => result'.value = assignments ]_vars

\* success on its way up through two open loops, one of which has
\* candidates left
C22_Witness ==
    /\ pc = "return"
    /\ retval
    /\ Len(stack) >= 2
    /\ \E f \in 1..Len(stack) : stack[f].pending # << >>
    /\ generation_stats.backtracks > 0

(***************************************************************************)
(* Candidate generation.                                                   *)
(***************************************************************************)
\* the rooms _filter_suitable_rooms returns for the n-th request
RoomsConsidered(n) ==
    LET suitable == filter_suitable_rooms(requests[n].course, requests[n].section, rooms)
    IN  { suitable[i] : i \in 1..Len(suitable) }

LargeEnough(room, request) == room.capacity >= request.section.student_count

\* C23 as stated: the rooms considered for a request are exactly the rooms
\* with capacity >= section.student_count whose type is lab if and only if
\* the course type is lab; a theory course is never offered a lab room.
C23_LabIffLab ==
    RequestsBuilt =>
        \A n \in 1..Len(requests) :
            RoomsConsidered(n) =
                { rooms[r] : r \in { q \in 1..Len(rooms) :
                    /\ LargeEnough(rooms[q], requests[n])
                    /\ (rooms[q].room_type = "lab")
                         <=> (requests[n].course.course_type = "lab") } }

\* C23 amended: the rooms considered for a request are exactly the rooms
\* with capacity >= section.student_count that are labs if the course is a
\* lab; a theory course is offered every room that is large enough, lab
\* rooms included.
C23_LabOnlyForLab ==
    RequestsBuilt =>
        \A n \in 1..Len(requests) :
            RoomsConsidered(n) =
                { rooms[r] : r \in { q \in 1..Len(rooms) :
                    /\ LargeEnough(rooms[q], requests[n])
                    /\ (requests[n].course.course_type = "lab")
                         => (rooms[q].room_type = "lab") } }

\* a theory request whose only room is a lab has been placed in it, the
\* classroom being too small
C23_Witness ==
    /\ Succeeded
    /\ \E r \in 1..Len(rooms) : \E n \in 1..Len(requests) :
         ~ LargeEnough(rooms[r], requests[n])
    /\ \E i \in 1..Len(result.value) :
         /\ result.value[i].course.course_type = "theory"
         /\ result.value[i].room.room_type = "lab"

\* the rooms the n-th request can be given, by their fields
UsableRooms(n) ==
    { rooms[r] : r \in { q \in 1..Len(rooms) :
        /\ LargeEnough(rooms[q], requests[n])
        /\ (requests[n].course.course_type = "lab") => (rooms[q].room_type = "lab") } }

\* the slots at which the teacher of the n-th request is available
FreeSlots(n) ==
    { all_slots[k] : k \in { q \in 1..Len(all_slots) :
        ~ MarkedUnavailable(requests[n].teacher, all_slots[q]) } }

\* one candidate for every (usable room, free slot) pair of the n-th request
CrossProduct(n) ==
    { ClassAssignment(requests[n].course, requests[n].section, requests[n].teacher,
                      room, slot) : room \in UsableRooms(n), slot \in FreeSlots(n) }

\* list holds every element of S once and nothing else
IsPermutationOf(list, S) ==
    /\ Len(list) = Cardinality(S)
    /\ { list[k] : k \in 1..Len(list) } = S

\* C24: whatever state the random generator is in, the candidate list built
\* for the request being visited holds every (suitable room, slot at which
\* the teacher is available) pair exactly once and no other pair, so the
\* shuffle changes only the order; and the candidates an open loop has
\* still to try are distinct candidates of that cross product.
C24_CandidatesArePermutation ==
    pc # "main" =>
        /\ (pc = "call" /\ index < Len(requests)) =>
             \A g \in GeneratorStates \cup {rng} :
                 IsPermutationOf(
                     possible_assignments(requests[index + 1], rooms, all_slots, g).list,
                     CrossProduct(index + 1))
        /\ \A f \in 1..Len(stack) :
             /\ \A k \in 1..Len(stack[f].pending) :
                  stack[f].pending[k] \in CrossProduct(stack[f].index + 1)
             /\ \A k, l \in 1..Len(stack[f].pending) :
                  k # l => stack[f].pending[k] # stack[f].pending[l]

\* a seeded run has just built a candidate list of four pairs in another
\* order than the rooms and slots were given in
C24_Witness ==
    /\ pc = "loop"
    /\ rng.seeded
    /\ Len(stack[Len(stack)].pending) = 4
    /\ Cardinality(CrossProduct(stack[Len(stack)].index + 1)) = 4
    /\ stack[Len(stack)].pending
         # candidate_assignments(requests[stack[Len(stack)].index + 1], rooms, all_slots)

(***************************************************************************)
(* The prioritizer.                                                        *)
(***************************************************************************)
\* what generate hands to _prioritize_requests
Built == build_scheduling_requests(courses, sections, teachers, course_assignments)

\* request a goes strictly before request b: lab before theory, then more
\* hours a week, then the department in string order
GoesBefore(a, b) ==
    LET lab(r) == r.course.course_type = "lab"
    IN  \/ lab(a) /\ ~ lab(b)
        \/ /\ lab(a) = lab(b)
           /\ a.course.hours_per_week > b.course.hours_per_week
        \/ /\ lab(a) = lab(b)
           /\ a.course.hours_per_week = b.course.hours_per_week
           /\ a.section.department = "Computer Science"
           /\ b.section.department = "Mathematics"

\* the position of a request in the builder's list
PositionIn(list, r) == CHOOSE i \in 1..Len(list) : list[i] = r

\* C25: the prioritizer returns a permutation of its input, sorted ascending
\* by (lab before theory, then descending hours_per_week, then the
\* section's department); requests that tie on the three keys keep their
\* input order.
C25_PrioritizedStableSort ==
    RequestsBuilt =>
        /\ Len(requests) = Len(Built)
        /\ { requests[i] : i \in 1..Len(requests) } = { Built[i] : i \in 1..Len(Built) }
        /\ \A i, j \in 1..Len(requests) :
             i < j =>
                 /\ ~ GoesBefore(requests[j], requests[i])
                 /\ ~ GoesBefore(requests[i], requests[j])
                      => PositionIn(Built, requests[i]) < PositionIn(Built, requests[j])

\* the requests of a one-hour entry given first and a two-hour entry given
\* second, of the same type, have changed places
C25_Witness ==
    /\ RequestsBuilt
    /\ Len(requests) = 3
    /\ Built[1].course.hours_per_week = 1
    /\ requests[3] = Built[1]
    /\ requests[1].instance = 1
    /\ requests[2].instance = 2

(***************************************************************************)
(* Termination.                                                            *)
(***************************************************************************)
\* C26: for every input and every max_attempts the search terminates, in
\* success or in failure: every run of generate or of _schedule_requests
\* reaches its return, also after the attempt limit has been found.
C26_Terminates ==
    <>(pc = "done" /\ result.status \in {"assignments", "None", "True", "False"})

\* a search that found the attempt limit under two candidates of the first
\* request has returned
C26_Witness ==
    /\ Failed
    /\ max_attempts = 1
    /\ Len(requests) >= 2
    /\ generation_stats.backtracks = 2

(***************************************************************************)
(* The audit after the search.                                             *)
(***************************************************************************)
\* C27: the audit generate runs on the list of a successful search finds
\* nothing: all six categories of its report are empty and count_conflicts
\* is 0, so the branch of generate that warns of detected conflicts is not
\* taken.
C27_AuditFindsNothing ==
    Succeeded =>
        /\ report.list = result.value
        /\ report.conflicts = EmptyConflicts
        /\ count_conflicts(report.conflicts) = 0

\* a success with two assignments at one slot, in two rooms
C27_Witness ==
    /\ Succeeded
    /\ report.list = result.value
    /\ \E i, j \in 1..Len(result.value) :
         /\ i < j
         /\ SameSlot(result.value[i], result.value[j])
         /\ result.value[i].room.room_id # result.value[j].room.room_id

(***************************************************************************)
(* Completeness of the search.                                             *)
(***************************************************************************)
\* the requests from the n-th on can be given rooms and slots so that the
\* list stays within the six hard constraints
RECURSIVE CanComplete(_, _)
CanComplete(list, n) ==
    IF n > Len(requests) THEN TRUE
    ELSE \E r \in 1..Len(rooms) : \E k \in 1..Len(all_slots) :
             LET a == ClassAssignment(requests[n].course, requests[n].section,
                                      requests[n].teacher, rooms[r], all_slots[k])
             IN  Acceptable(a, list) /\ CanComplete(Append(list, a), n + 1)

\* C28: the search is complete within its budget: if it has returned
\* failure with the attempt counter still below max_attempts, there is no
\* way to give every request a room of the room list and a slot of the slot
\* universe within the six hard constraints.
C28_FailureMeansUnsolvable ==
    (Failed /\ generation_stats.attempts < max_attempts) => ~ CanComplete(<< >>, 1)

\* a search with budget to spare has failed after a backtrack, every
\* request having candidates of its own
C28_Witness ==
    /\ Failed
    /\ generation_stats.attempts < max_attempts
    /\ generation_stats.backtracks > 0
    /\ Len(requests) >= 2
    /\ \A n \in 1..Len(requests) : CrossProduct(n) # {}

(***************************************************************************)
(* The counters.                                                           *)
(***************************************************************************)
\* the call has returned success: a list from generate, True from
\* _schedule_requests
Returned == pc = "done" /\ result.status \in {"assignments", "True"}

\* C29: the backtrack counter grows by exactly one with every commitment
\* that is undone and with nothing else; when a search has succeeded,
\* attempts = number of requests + backtracks; when a search with at least
\* one request has failed with the attempt counter still below
\* max_attempts, attempts = backtracks + 1.
C29_CounterArithmetic ==
    /\ [][ generation_stats'.backtracks =
             IF Len(assignments') < Len(assignments)
             THEN generation_stats.backtracks + 1
             ELSE generation_stats.backtracks ]_vars
    /\ [](Returned =>
             generation_stats.attempts = Len(requests) + generation_stats.backtracks)
    /\ []((Failed /\ Len(requests) >= 1
              /\ generation_stats.attempts < max_attempts) =>
             generation_stats.attempts = generation_stats.backtracks + 1)

\* a search of two requests has succeeded after undoing a commitment
C29_Witness ==
    /\ Returned
    /\ Len(requests) = 2
    /\ generation_stats.backtracks >= 1
    /\ generation_stats.attempts = 2 + generation_stats.backtracks

(***************************************************************************)
(* What the validator is left to reject during a search.                   *)
(***************************************************************************)
\* the candidates of the open loops
OpenCandidates ==
    UNION { { stack[f].pending[k] : k \in 1..Len(stack[f].pending) } :
              f \in 1..Len(stack) }

DoubleBookingKinds == { "Teacher conflict", "Room conflict", "Section conflict" }

\* C30: every candidate the search generates already has a room large
\* enough, a teacher available at its slot and a lab room if its course is
\* a lab; so during a search every violation the validator reports for a
\* candidate is a teacher, room or section double-booking against the
\* committed list, and a rejected candidate does clash with it.
C30_OnlyDoubleBookingRejected ==
    /\ \A c \in OpenCandidates : RoomFits(c) /\ TeacherFree(c) /\ LabInLab(c)
    /\ pc = "loop" =>
         \A k \in 1..Len(stack[Len(stack)].pending) :
             LET c == stack[Len(stack)].pending[k]
                 v == validate_assignment(c, assignments)
             IN  /\ \A m \in 1..Len(v.conflicts) : v.conflicts[m].kind \in DoubleBookingKinds
                 /\ ~ v.is_valid => \E i \in 1..Len(assignments) : Clash(c, assignments[i])

\* a loop holds a candidate the validator rejects, for a lab course of a
\* teacher with an unavailable slot, with a room too small and not a lab
\* among the rooms
C30_Witness ==
    /\ pc = "loop"
    /\ \E c \in OpenCandidates :
         /\ ~ validate_assignment(c, assignments).is_valid
         /\ c.course.course_type = "lab"
         /\ c.teacher.unavailable_slots # {}
         /\ \E r \in 1..Len(rooms) :
              ~ RoomFits([c EXCEPT !.room = rooms[r]]) /\ rooms[r].room_type # "lab"

(***************************************************************************)
(* generate called more than once on one generator.                        *)
(***************************************************************************)
\* a generate call is being started
GenerateStarts == pc \in {"main", "done"} /\ pc' = "call" /\ entry' = "generate"

\* C31: every generate call starts from an empty committed list and zeroed
\* attempt and backtrack counters; so when a generate call on a generator
\* that has been used before returns, the list and the counters are those
\* of this call alone (on success one assignment per request of this call
\* and attempts = requests + backtracks, on failure no assignment and
\* attempts = backtracks + 1); and the list the previous call returned is
\* in the caller's hands as it was returned, whatever the later call does.
C31_EachCallStartsAfresh ==
    /\ [][ GenerateStarts =>
             /\ assignments' = << >>
             /\ generation_stats' = ZeroStats
             /\ pc = "done" => (earlier'.status = result.status
                                  /\ earlier'.value = result.value) ]_vars
    /\ [][ ~ GenerateStarts => earlier'.value = earlier.value ]_vars
    /\ [](Succeeded =>
             /\ result.value = assignments
             /\ Len(assignments) = Len(requests)
             /\ generation_stats.attempts = Len(requests) + generation_stats.backtracks)
    /\ []((GenerateDone /\ result.status = "None") =>
             /\ assignments = << >>
             /\ generation_stats.attempts = generation_stats.backtracks + 1)

\* a call that placed two assignments has been followed by a call with no
\* room that failed: the caller still holds the two assignments
C31_Witness ==
    /\ GenerateDone
    /\ result.status = "None"
    /\ assignments = << >>
    /\ generation_stats.attempts = 1
    /\ earlier.status = "assignments"
    /\ Len(earlier.value) = 2

====
